---- MODULE Spec2Model ----
(***************************************************************************)
(* Xenomint State: the transactional state engine of CovenantSQL.  One     *)
(* long-running write transaction on the backend, a savepoint per log id,  *)
(* a pool of applied write trackers and failed requests, and the block     *)
(* committer that reconciles the pool against a finalized block.           *)
(*                                                                         *)
(* Spec and SpecBlock take each call as one atomic action; SpecConc runs    *)
(* the calls of two threads step by step, with the lock of State.          *)
(***************************************************************************)
EXTENDS Integers, Sequences, FiniteSets, TLC

(***************************************************************************)
(* Bounds of the model.                                                    *)
(***************************************************************************)
\* number of statements that may be executed past the initial log id
MaxSeq == 2
\* longest list of entries of a block handed to ReplayBlock
MaxBlockLen == 2
\* the id handed to InitTx
InitID == 100
\* most trackers the pool holds at a time
MaxPool == 2
\* number of Chain.Check calls that are followed
MaxChecks == 3

\* "no offset" / "no response" marker (a nil *types.Response)
NoOff == 0 - 1

(***************************************************************************)
(* Requests.  A request is a batch of queries sharing one QueryType; the   *)
(* model keeps for each query only whether the translator reports DDL.     *)
(***************************************************************************)
Requests == {"W0", "W1", "W2", "R1", "X1"}

QueryType(r) ==
    CASE r \in {"W0", "W1", "W2"} -> "Write"
      [] r = "R1"                 -> "Read"
      [] OTHER                    -> "Invalid"

Queries(r) ==
    CASE r = "W0" -> << >>
      [] r = "W1" -> << "dml" >>
      [] r = "W2" -> << "ddl", "dml" >>
      [] r = "R1" -> << "select", "select" >>
      [] OTHER    -> << "dml" >>

NQ(r) == Len(Queries(r))

VARIABLES
    current,          \* State.current: id of the next savepoint
    origin,           \* State.origin
    cmpoint,          \* State.cmpoint
    hasSchemaChange,  \* State.hasSchemaChange (0 or 1)
    closed,           \* State.closed
    queries,          \* pool.queries: sequence of trackers [sp, req, resp]
    failed,           \* pool.failed: set of failed requests
    unc,              \* the open write transaction: savepoints and statements
    committed,        \* the effects the backend has committed
    lastWrite,        \* history: LogOffset of the last successful Query write
    finalized,        \* history: effects finalized by a block or by CommitEx
    last,             \* history: the last call, its inputs, result and pre-state
    lock,             \* State.RWMutex: the thread holding it exclusively
    thr,              \* the call each thread has under way and its position
    txlog,            \* history: an operation issued on the write transaction
                      \* by a thread that did not hold the lock
    dbMap,            \* DBMS.dbMap: for each database id, the Create call whose
                      \* database is registered (or none)
    cre,              \* the DBMS.Create call of each thread and its position
    checks            \* history: the Chain.Check calls made, with their results

\* the variables of the threads
conc == << lock, thr, txlog >>

\* the variables of the database registry of the miner and of the chain
\* handler of the block producer
node == << dbMap, cre, checks >>

vars == << current, origin, cmpoint, hasSchemaChange, closed, queries, failed,
           unc, committed, lastWrite, finalized, last, lock, thr, txlog,
           dbMap, cre, checks >>

(***************************************************************************)
(* The backend's write transaction: a sequence of savepoint markers and    *)
(* executed statements.  A statement is remembered as the effect           *)
(* [req, id]: the request it belongs to and the log id it was executed at. *)
(***************************************************************************)
SP(id) == [k |-> "sp", id |-> id, req |-> "-"]

Stmt(req, id) == [k |-> "stmt", id |-> id, req |-> req]

\* SAVEPOINT "<id>": a second savepoint of the same name right on top of the
\* first one changes nothing a later ROLLBACK TO can observe
TxSavepoint(tx, id) ==
    IF tx # << >> /\ tx[Len(tx)] = SP(id) THEN tx ELSE Append(tx, SP(id))

TxHasSavepoint(tx, id) == \E i \in DOMAIN tx : tx[i] = SP(id)

\* ROLLBACK TO "<id>": back to the most recent savepoint of that name, which
\* stays; an unknown name is an error of the backend and changes nothing
TxRollbackTo(tx, id) ==
    IF TxHasSavepoint(tx, id)
    THEN LET top == CHOOSE i \in DOMAIN tx :
                       /\ tx[i] = SP(id)
                       /\ \A j \in DOMAIN tx : tx[j] = SP(id) => j <= i
         IN  SubSeq(tx, 1, top)
    ELSE tx

TxExec(tx, req, id) == Append(tx, Stmt(req, id))

TxEffects(tx) ==
    { [req |-> tx[i].req, id |-> tx[i].id] : i \in { j \in DOMAIN tx : tx[j].k = "stmt" } }

(***************************************************************************)
(* The query pool.                                                         *)
(***************************************************************************)
Tracker(sp, req, resp) == [sp |-> sp, req |-> req, resp |-> resp]

enqueue(q, sp, req, resp) == Append(q, Tracker(sp, req, resp))

setFailed(f, req) == f \cup {req}

removeFailed(f, req) == f \ {req}

failedList(f) == f

PoolKeys(q) == { q[i].sp : i \in DOMAIN q }

match(q, sp, req) == \E i \in DOMAIN q : q[i].sp = sp /\ q[i].req = req

matchLast(q, sp) ==
    /\ q # << >>
    /\ \A k \in PoolKeys(q) : k <= sp
    /\ sp \in PoolKeys(q)

TrackerAbove(t, upTo) == t.sp > upTo

truncate(q, upTo) == SelectSeq(q, LAMBDA t : TrackerAbove(t, upTo))

(***************************************************************************)
(* State and its unexported helpers, as functions of the state record.     *)
(***************************************************************************)
\* no rollbackTo made: rb is a history field, the target of the rollbackTo a
\* call made, the number of executed statements it undid and whether the
\* open transaction had a savepoint of that name
NoRb == [k |-> NoOff, n |-> 0, has |-> TRUE]

St ==
    [ current |-> current, origin |-> origin, cmpoint |-> cmpoint,
      flag |-> hasSchemaChange, closed |-> closed, queries |-> queries,
      failed |-> failed, unc |-> unc, db |-> committed, rb |-> NoRb ]

Install(t) ==
    /\ current' = t.current
    /\ origin' = t.origin
    /\ cmpoint' = t.cmpoint
    /\ hasSchemaChange' = t.flag
    /\ closed' = t.closed
    /\ queries' = t.queries
    /\ failed' = t.failed
    /\ unc' = t.unc
    /\ committed' = t.db

getID(s) == s.current

\* incSeq that counts a statement twice
incSeq_by2(s) == [s EXCEPT !.current = @ + 2]

incSeq(s) == [s EXCEPT !.current = @ + 1]

\* setNextTxID that moves origin and leaves cmpoint behind
setNextTxID_originOnly(s) == [s EXCEPT !.origin = getID(s)]

setNextTxID(s) == [s EXCEPT !.origin = getID(s), !.cmpoint = getID(s)]

\* setCommitPoint that marks the id after the current one
setCommitPoint_next(s) == [s EXCEPT !.cmpoint = getID(s) + 1]

setCommitPoint(s) == [s EXCEPT !.cmpoint = getID(s)]

\* rollbackID that does not store the id
rollbackID_keep(s, id) == s

rollbackID(s, id) == [s EXCEPT !.current = id]

setSavepoint(s) == [s EXCEPT !.unc = TxSavepoint(@, getID(s))]

\* rollbackTo that issues ROLLBACK TO but does not store the id back
rollbackTo_noStore(s, savepoint) ==
    [s EXCEPT !.unc = TxRollbackTo(@, savepoint),
              !.rb = [k |-> savepoint, n |-> getID(s) - savepoint,
                                             has |-> TxHasSavepoint(s.unc, savepoint)]]

\* rollbackTo that also clears the schema-change flag
rollbackTo_clearFlag(s, savepoint) ==
    [rollbackID(s, savepoint) EXCEPT !.unc = TxRollbackTo(@, savepoint),
                                     !.flag = 0,
                                     !.rb = [k |-> savepoint, n |-> getID(s) - savepoint,
                                             has |-> TxHasSavepoint(s.unc, savepoint)]]

rollbackTo(s, savepoint) ==
    [rollbackID(s, savepoint) EXCEPT !.unc = TxRollbackTo(@, savepoint),
                                     !.rb = [k |-> savepoint, n |-> getID(s) - savepoint,
                                             has |-> TxHasSavepoint(s.unc, savepoint)]]

\* writeSingle that does not raise the schema-change flag
writeSingle_noFlag(s, req, i) ==
    incSeq([s EXCEPT !.unc = TxExec(@, req, getID(s))])

\* writeSingle when ExecContext succeeds; when the translation or the
\* execution fails, writeSingle leaves the state as it is
writeSingle(s, req, i) ==
    incSeq([s EXCEPT !.unc = TxExec(@, req, getID(s)),
                     !.flag = IF Queries(req)[i] = "ddl" THEN 1 ELSE @])

\* the loop over req.Payload.Queries; query number f fails (0: none does)
RECURSIVE writeQueries(_, _, _, _)
writeQueries(s, req, i, f) ==
    IF i > NQ(req) THEN [s |-> s, ok |-> TRUE, n |-> i - 1]
    ELSE IF i = f THEN [s |-> s, ok |-> FALSE, n |-> i - 1]
    ELSE writeQueries(writeSingle(s, req, i), req, i + 1, f)

uncCommit(s) ==
    [s EXCEPT !.db = @ \cup TxEffects(s.unc), !.unc = << >>, !.flag = 0]

Begin(s) == [s EXCEPT !.unc = << >>]

newPool(s) == [s EXCEPT !.queries = << >>, !.failed = {}]

(***************************************************************************)
(* The record of the last call.                                            *)
(***************************************************************************)
Call(op, req, res, off, n, didCommit, arg) ==
    [ op |-> op, req |-> req, res |-> res, off |-> off, n |-> n,
      didCommit |-> didCommit, arg |-> arg, f |-> 0,
      cur0 |-> current, origin0 |-> origin, cmpoint0 |-> cmpoint,
      pool0 |-> queries, failed0 |-> failed, db0 |-> committed,
      prevW |-> lastWrite,
      block |-> << >>, trace |-> << >>, poolRec |-> << >>, retQ |-> << >>,
      retF |-> {}, eff0 |-> TxEffects(unc), path |-> "-", kind |-> "-",
      rb |-> NoRb,
      rolled0 |-> last.rb ]

Top == InitID + MaxSeq

\* no call is under way: the caller has taken the result of its last call
Idle == last.op = "idle"

\* the record of no call
NoCall(op) ==
    [ op |-> op, req |-> "-", res |-> "ok", off |-> NoOff,
      n |-> 0, didCommit |-> FALSE, arg |-> FALSE, f |-> 0,
      cur0 |-> 0, origin0 |-> 0, cmpoint0 |-> 0,
      pool0 |-> << >>, failed0 |-> {}, db0 |-> {}, prevW |-> NoOff,
      block |-> << >>, trace |-> << >>, poolRec |-> << >>,
      retQ |-> << >>, retF |-> {}, eff0 |-> {}, path |-> "-", kind |-> "-",
      rb |-> NoRb,
      rolled0 |-> NoRb ]

(***************************************************************************)
(* The threads calling into State.                                         *)
(***************************************************************************)
Threads == {"t1", "t2"}

NoThread == "none"

\* a thread with no call under way
NoThreadCall ==
    [op |-> "-", pc |-> 0, req |-> "-", path |-> "-", off |-> NoOff,
     commit |-> FALSE, covered |-> FALSE, retF |-> {}, lost |-> {}]

\* the database ids of the model
DBIDs == {"db1", "db2"}

\* a nil error
Nil == [cause |-> "nil", msg |-> ""]

\* a thread that has made no Create call
NoCreate == [pc |-> "-", id |-> "-", cleanup |-> FALSE, db |-> FALSE, err |-> Nil]

\* no operation was issued on the write transaction without the lock
NoTxOp == [by |-> NoThread, what |-> "-", held |-> TRUE]

(***************************************************************************)
(* NewState and InitTx.                                                    *)
(***************************************************************************)
NewState ==
    setSavepoint([ current |-> 0, origin |-> 0, cmpoint |-> 0, flag |-> 0,
                   closed |-> FALSE, queries |-> << >>, failed |-> {},
                   unc |-> << >>, db |-> {}, rb |-> NoRb ])

Init ==
    /\ current = NewState.current
    /\ origin = NewState.origin
    /\ cmpoint = NewState.cmpoint
    /\ hasSchemaChange = NewState.flag
    /\ closed = NewState.closed
    /\ queries = NewState.queries
    /\ failed = NewState.failed
    /\ unc = NewState.unc
    /\ committed = NewState.db
    /\ lastWrite = NoOff
    /\ finalized = {}
    /\ last = NoCall("NewState")
    /\ lock = NoThread
    /\ thr = [t \in Threads |-> NoThreadCall]
    /\ txlog = NoTxOp
    /\ dbMap = [id \in DBIDs |-> NoThread]
    /\ cre = [t \in Threads |-> NoCreate]
    /\ checks = << >>

InitTxState(s, id) ==
    setSavepoint(rollbackID([s EXCEPT !.origin = id, !.cmpoint = id], id))

\* called once, at initialization, before any request
InitTx(id) ==
    /\ last.op = "NewState"
    /\ Install(InitTxState(St, id))
    /\ last' = Call("InitTx", "-", "ok", id, 0, FALSE, FALSE)
    /\ UNCHANGED << lastWrite, finalized >>
    /\ UNCHANGED conc
    /\ UNCHANGED node

(***************************************************************************)
(* The write path.                                                         *)
(***************************************************************************)
\* a query failed: add to the failed list, roll back to the savepoint
writeFailed(s, req, savepoint) ==
    rollbackTo([s EXCEPT !.failed = setFailed(@, req)], savepoint)

\* writeDone that pools the tracker under the id read after the queries ran
writeDone_newKey(s, req, savepoint) ==
    [setSavepoint(s) EXCEPT !.queries = enqueue(@, getID(s), req, NoOff)]

\* every query done: name the new savepoint, pool the tracker
writeDone(s, req, savepoint) ==
    [setSavepoint(s) EXCEPT !.queries = enqueue(@, savepoint, req, NoOff)]

write(s, req, f) ==
    LET savepoint == getID(s)
        r == writeQueries(s, req, 1, f)
    IN  IF r.ok
        THEN [s |-> writeDone(r.s, req, savepoint), res |-> "ok",
              off |-> savepoint, n |-> r.n]
        ELSE [s |-> writeFailed(r.s, req, savepoint), res |-> "ExecError",
              off |-> NoOff, n |-> r.n]

(***************************************************************************)
(* The read path.  A read changes nothing in the backend; on the fallback  *)
(* path it runs on the write transaction between a savepoint and the       *)
(* rollback to it.                                                         *)
(***************************************************************************)
\* the branch readTx takes on the value it loads from hasSchemaChange
readPath(flag) == IF flag = 1 THEN "tx" ELSE "dirty"

\* readTxOn whose transactional branch returns without the rollback
readTxOn_noRollback(s, req, f, path) ==
    LET id == getID(s)
        bad == f \in 1 .. NQ(req)
        s1 == IF path = "tx" THEN setSavepoint(s) ELSE s
        s2 == IF bad THEN [s1 EXCEPT !.failed = setFailed(@, req)] ELSE s1
    IN  [s |-> s2, res |-> IF bad THEN "ExecError" ELSE "ok",
         off |-> IF bad THEN NoOff ELSE id,
         n |-> IF bad THEN f - 1 ELSE NQ(req), path |-> path]

\* readTxOn that reports the origin of the transaction as LogOffset
readTxOn_originOff(s, req, f, path) ==
    LET id == getID(s)
        bad == f \in 1 .. NQ(req)
        s1 == IF path = "tx" THEN setSavepoint(s) ELSE s
        s2 == IF bad THEN [s1 EXCEPT !.failed = setFailed(@, req)] ELSE s1
        s3 == IF path = "tx" THEN rollbackTo(s2, id) ELSE s2
    IN  [s |-> s3, res |-> IF bad THEN "ExecError" ELSE "ok",
         off |-> IF bad THEN NoOff ELSE s.origin,
         n |-> IF bad THEN f - 1 ELSE NQ(req), path |-> path]

\* readTxOn that does not record a failing request
readTxOn_noFailed(s, req, f, path) ==
    LET id == getID(s)
        bad == f \in 1 .. NQ(req)
        s1 == IF path = "tx" THEN setSavepoint(s) ELSE s
        s3 == IF path = "tx" THEN rollbackTo(s1, id) ELSE s1
    IN  [s |-> s3, res |-> IF bad THEN "ExecError" ELSE "ok",
         off |-> IF bad THEN NoOff ELSE id,
         n |-> IF bad THEN f - 1 ELSE NQ(req), path |-> path]

\* readTx once it has chosen its branch; query number f fails (0: none
\* does), n is the number of queries that were run to their end
readTxOn(s, req, f, path) ==
    LET id == getID(s)
        bad == f \in 1 .. NQ(req)
        s1 == IF path = "tx" THEN setSavepoint(s) ELSE s
        s2 == IF bad THEN [s1 EXCEPT !.failed = setFailed(@, req)] ELSE s1
        s3 == IF path = "tx" THEN rollbackTo(s2, id) ELSE s2
    IN  [s |-> s3, res |-> IF bad THEN "ExecError" ELSE "ok",
         off |-> IF bad THEN NoOff ELSE id,
         n |-> IF bad THEN f - 1 ELSE NQ(req), path |-> path]

readTx(s, req, f) == readTxOn(s, req, f, readPath(s.flag))

\* QueryWithContext that hands a request of unknown type to write
QueryWithContext_invalidAsWrite(s, req, f) ==
    CASE QueryType(req) = "Read"  -> readTx(s, req, f)
      [] QueryType(req) = "Write" -> write(s, req, f)
      [] OTHER -> LET w == write(s, req, f)
                  IN  [s |-> w.s, res |-> w.res, off |-> w.off, n |-> w.n,
                       path |-> "locked"]

\* the default case returns ErrInvalidRequest and calls nothing
QueryWithContext(s, req, f) ==
    CASE QueryType(req) = "Read"  -> readTx(s, req, f)
      [] QueryType(req) = "Write" -> write(s, req, f)
      [] OTHER -> [s |-> s, res |-> "InvalidRequest", off |-> NoOff, n |-> 0,
                   path |-> "nolock"]

\* a result is kept within the bounds of the model; operations other than
\* Close are only issued while the state is open (the code has no check of
\* closed outside Close, so calls after Close are left out of the model)
InBounds(s) == s.current <= Top /\ Len(s.queries) <= MaxPool

\* the caller of a call whose rollbackTo undid executed statements may send
\* its next write with the result of that call still at hand; kind tells
\* whether query f fails in its translation or in its execution, which
\* readSingle and writeSingle return to their callers as the same error
Query(req, f, kind) ==
    /\ Idle \/ (last.rb.n > 0 /\ QueryType(req) = "Write" /\ f = 0)
    /\ ~closed
    /\ LET r == QueryWithContext(St, req, f)
           isW == QueryType(req) = "Write"
       IN  /\ InBounds(r.s)
           /\ Install(r.s)
           /\ last' = [Call(IF isW THEN "write"
                            ELSE IF QueryType(req) = "Read" THEN "read" ELSE "query",
                            req, r.res, r.off, r.n, FALSE, hasSchemaChange = 1)
                         EXCEPT !.f = f, !.rb = r.s.rb, !.kind = kind,
                                !.path = IF isW THEN "-" ELSE r.path]
           /\ lastWrite' = IF isW /\ r.res = "ok" THEN r.off ELSE lastWrite
    /\ UNCHANGED finalized
    /\ UNCHANGED conc
    /\ UNCHANGED node

(***************************************************************************)
(* The replay path: one write shipped by a peer, with its response.  The   *)
(* response is modelled by its LogOffset.                                  *)
(***************************************************************************)
\* replayCheck that refuses only a response ahead of the local id
replayCheck_onlyAhead(off, savepoint) ==
    IF off > savepoint THEN "QueryConflict" ELSE "ok"

replayCheck(off, savepoint) ==
    IF off # savepoint THEN "QueryConflict" ELSE "ok"

\* replayFailed that records the request as failed, as write does
replayFailed_setFailed(s, req, savepoint) ==
    rollbackTo([s EXCEPT !.failed = setFailed(@, req)], savepoint)

replayFailed(s, req, savepoint) == rollbackTo(s, savepoint)

\* replayDone that pools the tracker without the response
replayDone_noResp(s, req, savepoint, resp) ==
    [setSavepoint(s) EXCEPT !.queries = enqueue(@, savepoint, req, NoOff)]

replayDone(s, req, savepoint, resp) ==
    [setSavepoint(s) EXCEPT !.queries = enqueue(@, savepoint, req, resp)]

replay(s, req, off, f) ==
    LET savepoint == getID(s)
        chk == replayCheck(off, savepoint)
        r == writeQueries(s, req, 1, f)
    IN  IF chk # "ok" THEN [s |-> s, res |-> chk, n |-> 0]
        ELSE IF r.ok
        THEN [s |-> replayDone(r.s, req, savepoint, off), res |-> "ok", n |-> r.n]
        ELSE [s |-> replayFailed(r.s, req, savepoint), res |-> "ExecError", n |-> r.n]

\* ReplayWithContext that replays a read request as it does a write
ReplayWithContext_readReplayed(s, req, off, f) ==
    CASE QueryType(req) \in {"Read", "Write"} -> replay(s, req, off, f)
      [] OTHER -> [s |-> s, res |-> "InvalidRequest", n |-> 0]

ReplayWithContext(s, req, off, f) ==
    CASE QueryType(req) = "Read"  -> [s |-> s, res |-> "ok", n |-> 0]
      [] QueryType(req) = "Write" -> replay(s, req, off, f)
      [] OTHER -> [s |-> s, res |-> "InvalidRequest", n |-> 0]

\* the branch of ReplayWithContext that goes through replay takes the lock
replayLocks(req) == QueryType(req) = "Write"

\* the offsets the peers and the blocks of the model carry
Offsets == { o \in (current - 2) .. (current + 1) : o >= InitID }

Replay(req, off, f) ==
    /\ Idle
    /\ ~closed
    /\ LET r == ReplayWithContext(St, req, off, f)
       IN  /\ InBounds(r.s)
           /\ Install(r.s)
           /\ last' = [Call("replay", req, r.res, off, r.n, FALSE, hasSchemaChange = 1)
                         EXCEPT !.f = f, !.rb = r.s.rb,
                                !.path = IF replayLocks(req) THEN "locked" ELSE "nolock"]
    /\ UNCHANGED << lastWrite, finalized >>
    /\ UNCHANGED conc
    /\ UNCHANGED node

(***************************************************************************)
(* The block committer.  A block is a list of entries [req, off] (the      *)
(* request and the LogOffset of its signed response header) and a set of   *)
(* failed requests.                                                        *)
(***************************************************************************)
\* entryCheck that skips every entry below lastsp, matched or not
entryCheck_skipBelow(off, lastsp, matched) ==
    IF off > lastsp THEN "MissingParent"
    ELSE IF off < lastsp THEN "skip"
    ELSE "replay"

\* entryCheck that replays an entry ahead of lastsp
entryCheck_noParent(off, lastsp, matched) ==
    IF off < lastsp THEN (IF matched THEN "skip" ELSE "QueryConflict")
    ELSE "replay"

\* what the loop does with an entry whose offset is off, at lastsp
entryCheck(off, lastsp, matched) ==
    IF off > lastsp THEN "MissingParent"
    ELSE IF off < lastsp THEN (IF matched THEN "skip" ELSE "QueryConflict")
    ELSE "replay"

entryDone(s, e, lastsp) ==
    [setSavepoint(s) EXCEPT !.queries = enqueue(@, lastsp, e.req, e.off)]

\* replayEntry that returns the error without rolling back
replayEntry_noRollback(s, e, lastsp, f) ==
    IF NQ(e.req) = 0 \/ QueryType(e.req) = "Read"
    THEN [s |-> entryDone(s, e, lastsp), res |-> "ok", n |-> 0]
    ELSE IF QueryType(e.req) # "Write"
    THEN [s |-> s, res |-> "InvalidRequest", n |-> 0]
    ELSE LET r == writeQueries(s, e.req, 1, f)
         IN  IF r.ok
             THEN [s |-> entryDone(r.s, e, lastsp), res |-> "ok", n |-> r.n]
             ELSE [s |-> r.s, res |-> "ExecError", n |-> r.n]

\* the replay of one entry at lastsp; its query number f fails (0: none)
replayEntry(s, e, lastsp, f) ==
    IF NQ(e.req) = 0 \/ QueryType(e.req) = "Read"
    THEN [s |-> entryDone(s, e, lastsp), res |-> "ok", n |-> 0]
    ELSE IF QueryType(e.req) # "Write"
    THEN [s |-> rollbackTo(s, lastsp), res |-> "InvalidRequest", n |-> 0]
    ELSE LET r == writeQueries(s, e.req, 1, f)
         IN  IF r.ok
             THEN [s |-> entryDone(r.s, e, lastsp), res |-> "ok", n |-> r.n]
             ELSE [s |-> rollbackTo(r.s, lastsp), res |-> "ExecError", n |-> r.n]

Step(act, e, lastsp, n) == [act |-> act, req |-> e.req, off |-> e.off, cur |-> lastsp, n |-> n]

\* the loop over block.QueryTxs; b is [s, res, lastsp, n, trace]
RECURSIVE replayEntries(_, _, _, _)
replayEntries(b, block, i, fail) ==
    IF i > Len(block) \/ b.res # "ok" THEN b
    ELSE LET e == block[i]
             lastsp == getID(b.s)
             act == entryCheck(e.off, lastsp, match(b.s.queries, e.off, e.req))
             r == replayEntry(b.s, e, lastsp, IF fail.ent = i THEN fail.q ELSE 0)
         IN  IF act = "replay"
             THEN replayEntries(
                      [s |-> r.s, res |-> r.res, lastsp |-> lastsp, n |-> b.n + r.n,
                       trace |-> Append(b.trace,
                           Step(IF r.res = "ok" THEN "replay" ELSE r.res, e, lastsp, r.n))],
                      block, i + 1, fail)
             ELSE IF act = "skip"
             THEN replayEntries(
                      [b EXCEPT !.lastsp = lastsp,
                                !.trace = Append(@, Step("skip", e, lastsp, 0))],
                      block, i + 1, fail)
             ELSE [b EXCEPT !.res = act, !.lastsp = lastsp,
                            !.trace = Append(@, Step(act, e, lastsp, 0))]

\* "Check if the current transaction is OK to commit"
okToCommit(q, lastsp) == matchLast(q, lastsp)

\* blockFinish that does not truncate the pool
blockFinish_noTruncate(s, lastsp, failedReqs) ==
    LET s1 == [s EXCEPT !.failed = @ \ failedReqs]
        ok == okToCommit(s1.queries, lastsp)
        s2 == IF ok THEN setNextTxID(Begin(uncCommit(s1))) ELSE setCommitPoint(s1)
        s3 == setSavepoint(s2)
    IN  [s |-> s3, didCommit |-> ok, poolRec |-> s1.queries]

\* blockFinish that does not purge the failed requests of the block
blockFinish_keepFailed(s, lastsp, failedReqs) ==
    LET ok == okToCommit(s.queries, lastsp)
        s2 == IF ok THEN setNextTxID(Begin(uncCommit(s))) ELSE setCommitPoint(s)
        s3 == setSavepoint(s2)
    IN  [s |-> [s3 EXCEPT !.queries = truncate(@, lastsp)], didCommit |-> ok,
         poolRec |-> s.queries]

\* after the loop: purge the failed requests, commit or set the commit point,
\* name the savepoint, truncate the pool
blockFinish(s, lastsp, failedReqs) ==
    LET s1 == [s EXCEPT !.failed = @ \ failedReqs]
        ok == okToCommit(s1.queries, lastsp)
        s2 == IF ok THEN setNextTxID(Begin(uncCommit(s1))) ELSE setCommitPoint(s1)
        s3 == setSavepoint(s2)
    IN  [s |-> [s3 EXCEPT !.queries = truncate(@, lastsp)], didCommit |-> ok,
         poolRec |-> s1.queries]

ReplayBlockWithContext(s, block, failedReqs, fail) ==
    LET b == replayEntries([s |-> s, res |-> "ok", lastsp |-> 0, n |-> 0,
                            trace |-> << >>], block, 1, fail)
        fin == blockFinish(b.s, b.lastsp, failedReqs)
    IN  IF b.res # "ok"
        THEN [s |-> b.s, res |-> b.res, n |-> b.n, trace |-> b.trace,
              didCommit |-> FALSE, poolRec |-> b.s.queries, lastsp |-> b.lastsp]
        ELSE [s |-> fin.s, res |-> "ok", n |-> b.n, trace |-> b.trace,
              didCommit |-> fin.didCommit, poolRec |-> fin.poolRec,
              lastsp |-> b.lastsp]

ReplayReqs == {"W1", "W2", "R1", "X1"}

BlockReqs == {"W1", "W2", "R1", "X1"}

Entries(reqs) == [req : reqs, off : Offsets]

\* the entry lists of at most len entries: ordered by LogOffset ascending
RECURSIVE BlocksFrom(_, _, _)
BlocksFrom(reqs, len, lo) ==
    IF len = 0 THEN { << >> }
    ELSE { << >> } \cup
         UNION { { << e >> \o b : b \in BlocksFrom(reqs, len - 1, e.off) } :
                 e \in { x \in Entries(reqs) : x.off >= lo } }

Blocks(reqs, len) == BlocksFrom(reqs, len, 0)

\* which query of which entry fails, if it is reached
FailPoints(block) ==
    { [ent |-> 0, q |-> 0] } \cup
    UNION { { [ent |-> i, q |-> j] : j \in 1 .. NQ(block[i].req) } :
            i \in { k \in DOMAIN block : QueryType(block[k].req) = "Write" } }

\* the query of a request handed to Query that fails (0: none does)
FailIdx(req) == IF req = "W1" THEN {0} ELSE 0 .. NQ(req)

\* the way a query fails: in convertQueryAndBuildArgs or in the backend
FailKinds == {"translate", "exec"}

FailCases(req) ==
    { [f |-> 0, kind |-> "-"] } \cup
    [f : FailIdx(req) \ {0}, kind : FailKinds]

FailedLists == { {} } \cup { {r} : r \in failed }

\* the effects of the writes a block lists
BlockEffects(block) ==
    UNION { { [req |-> block[i].req, id |-> block[i].off + j] :
                j \in 0 .. (NQ(block[i].req) - 1) } :
            i \in { k \in DOMAIN block : QueryType(block[k].req) = "Write" } }

ReplayBlock(block, failedReqs, fail) ==
    /\ Idle
    /\ ~closed
    /\ LET r == ReplayBlockWithContext(St, block, failedReqs, fail)
       IN  /\ InBounds(r.s)
           /\ Install(r.s)
           /\ last' = [Call("ReplayBlock", "-", r.res, r.lastsp, r.n, r.didCommit,
                            hasSchemaChange = 1)
                         EXCEPT !.block = block, !.trace = r.trace, !.rb = r.s.rb,
                                !.poolRec = r.poolRec, !.retF = failedReqs]
           /\ finalized' = IF r.res # "ok" THEN finalized
                           ELSE finalized \cup BlockEffects(block)
                                  \cup (IF r.didCommit THEN r.s.db ELSE {})
    /\ UNCHANGED lastWrite
    /\ UNCHANGED conc
    /\ UNCHANGED node

(***************************************************************************)
(* CommitEx and Close.                                                     *)
(***************************************************************************)
\* CommitExWithContext that returns the pool without resetting it
CommitExWithContext_keepPool(s) ==
    LET s1 == setSavepoint(setNextTxID(Begin(uncCommit(s))))
    IN  [s |-> s1, retF |-> failedList(s1.failed), retQ |-> s1.queries]

\* commitTx that does not name a savepoint in the new transaction
commitTx_noSavepoint(s) == setNextTxID(Begin(uncCommit(s)))

\* CommitExWithContext up to the new savepoint: commit, begin, new origin
commitTx(s) == setSavepoint(setNextTxID(Begin(uncCommit(s))))

\* "Return pooled items and reset"
CommitExWithContext(s) ==
    LET s1 == commitTx(s)
    IN  [s |-> newPool(s1), retF |-> failedList(s1.failed), retQ |-> s1.queries]

CommitEx ==
    /\ Idle
    /\ ~closed
    /\ LET r == CommitExWithContext(St)
       IN  /\ Install(r.s)
           /\ last' = [Call("CommitEx", "-", "ok", NoOff, 0, TRUE, FALSE)
                         EXCEPT !.retQ = r.retQ, !.retF = r.retF]
           /\ finalized' = finalized \cup r.s.db
    /\ UNCHANGED lastWrite
    /\ UNCHANGED conc
    /\ UNCHANGED node

\* "Only rollback to last commit point"
rollback(s) == rollbackTo(s, s.cmpoint)

\* Close that does not look at closed
CloseState_noCheck(s, commit) ==
    [ (IF commit THEN uncCommit(s) ELSE uncCommit(rollback(s)))
        EXCEPT !.closed = TRUE ]

CloseState(s, commit) ==
    IF s.closed THEN s
    ELSE [ (IF commit THEN uncCommit(s) ELSE uncCommit(rollback(s)))
             EXCEPT !.closed = TRUE ]

Close(commit) ==
    /\ Idle
    /\ Install(CloseState(St, commit))
    /\ last' = [Call("Close", "-", "ok", NoOff, 0, ~closed, commit)
                  EXCEPT !.rb = CloseState(St, commit).rb]
    /\ UNCHANGED << lastWrite, finalized >>
    /\ UNCHANGED conc
    /\ UNCHANGED node

\* the caller takes the result of the call; it makes its next call after that
Return ==
    /\ last.op \notin {"idle", "NewState"}
    /\ last' = NoCall("idle")
    /\ UNCHANGED << current, origin, cmpoint, hasSchemaChange, closed, queries,
                    failed, unc, committed, lastWrite, finalized >>
    /\ UNCHANGED conc
    /\ UNCHANGED node

Next ==
    \/ InitTx(InitID)
    \/ Return
    \/ \E req \in Requests : \E c \in FailCases(req) : Query(req, c.f, c.kind)
    \/ \E req \in ReplayReqs, off \in Offsets :
         \E f \in 0 .. NQ(req) : Replay(req, off, f)
    \/ \E block \in Blocks(BlockReqs, 1) :
         \E failedReqs \in FailedLists, fail \in FailPoints(block) :
            ReplayBlock(block, failedReqs, fail)
    \/ CommitEx
    \/ \E commit \in BOOLEAN : Close(commit)

Spec == Init /\ [][Next]_vars

(***************************************************************************)
(* The block committer against a pool of local writes: every local write   *)
(* succeeds, and the blocks are longer.                                    *)
(***************************************************************************)
LocalWrites == {"W1", "W2"}

LongBlockReqs == {"W1", "W2"}

NextBlock ==
    \/ InitTx(InitID)
    \/ Return
    \/ \E req \in LocalWrites : Query(req, 0, "-")
    \/ \E block \in Blocks(LongBlockReqs, MaxBlockLen) :
         \E failedReqs \in FailedLists, fail \in FailPoints(block) :
            ReplayBlock(block, failedReqs, fail)
    \/ \E commit \in BOOLEAN : Close(commit)

SpecBlock == Init /\ [][NextBlock]_vars

(***************************************************************************)
(* The calls as the threads run them: every call is the list of its steps, *)
(* and the threads interleave step by step.  The steps between Lock and    *)
(* Unlock of one call are the functions of the sections above.             *)
(***************************************************************************)
\* a locked call that returns without the deferred Unlock
lockedProgram_noUnlock(body) == << "Lock", body >>

\* write, replay, ReplayBlockWithContext, CommitExWithContext:
\* s.Lock(); defer s.Unlock(); body
lockedProgram(body) == << "Lock", body, "Unlock" >>

\* readTx whose transactional branch does not take the lock
readProgram_txNoLock(path) ==
    << "loadFlag" >> \o (IF path = "tx" THEN << "readTx" >> ELSE << "dirtyRead" >>)

\* readTx: load the flag, then the locked branch on the write transaction or
\* the dirty reader with no lock
readProgram(path) ==
    << "loadFlag" >> \o
    (IF path = "tx" THEN << "Lock", "readTx", "Unlock" >> ELSE << "dirtyRead" >>)

\* CommitExWithContext: under the lock, the commit and the new transaction,
\* failed = s.pool.failedList(), then s.pool = newPool()
commitExProgram == << "Lock", "commitEx", "newPool", "Unlock" >>

\* Close whose rollback to the commit point does not take the lock
closeProgram_rollbackNoLock(commit) ==
    << "closed?" >> \o
    (IF commit THEN << "Lock", "closeCommit", "Unlock" >>
     ELSE << "rollback", "Lock", "closeCommit", "Unlock" >>)

\* Close: test closed, then commit under the lock; Close(false) first calls
\* rollback(), which takes and releases the lock by itself
closeProgram(commit) ==
    << "closed?" >> \o
    (IF commit THEN << "Lock", "closeCommit", "Unlock" >>
     ELSE << "Lock", "rollback", "Unlock", "Lock", "closeCommit", "Unlock" >>)

Program(c) ==
    CASE c.op = "Query" /\ QueryType(c.req) = "Read"  -> readProgram(c.path)
      [] c.op = "Query" /\ QueryType(c.req) = "Write" -> lockedProgram("write")
      [] c.op = "Replay"      ->
             IF replayLocks(c.req) THEN lockedProgram("replay") ELSE << >>
      [] c.op = "ReplayBlock" -> lockedProgram("block")
      [] c.op = "CommitEx"    -> commitExProgram
      [] c.op = "Close"       -> closeProgram(c.commit)
      [] OTHER                -> << >>

\* the step a thread is at ("-": none, the call is over or not begun)
Instr(c) ==
    IF c.pc \in DOMAIN Program(c) THEN Program(c)[c.pc] ELSE "-"

\* the steps that issue statements, savepoints, rollbacks or a commit on the
\* write transaction
TxSteps == {"write", "replay", "block", "commitEx", "readTx", "rollback", "closeCommit"}

Advance(t) == [thr EXCEPT ![t].pc = @ + 1]

\* the requests the threads send
ConcWrites == {"W2"}

\* the requests the peers and the blocks ship
ConcReplays == {"W1"}

ConcReads == {"R1"}

\* a thread begins a call; the offset a peer or a block ships is the one the
\* log is at when the call is made
Start(t, op, req, commit) ==
    /\ Idle
    /\ ~closed
    /\ thr[t].op = "-"
    /\ thr' = [thr EXCEPT ![t] = [op |-> op, pc |-> 1, req |-> req, path |-> "-",
                                  off |-> IF op \in {"Replay", "ReplayBlock"}
                                          THEN current ELSE NoOff,
                                  commit |-> commit, covered |-> FALSE,
                                  retF |-> {}, lost |-> {}]]
    /\ UNCHANGED << current, origin, cmpoint, hasSchemaChange, closed, queries,
                    failed, unc, committed, lastWrite, finalized, last,
                    lock, txlog >>
    /\ UNCHANGED node

\* s.Lock()
Acquire(t) ==
    /\ Instr(thr[t]) = "Lock"
    /\ lock = NoThread
    /\ lock' = t
    /\ thr' = Advance(t)
    /\ UNCHANGED << current, origin, cmpoint, hasSchemaChange, closed, queries,
                    failed, unc, committed, lastWrite, finalized, last,
                    txlog >>
    /\ UNCHANGED node

\* s.Unlock(); a dirty read under way is no longer covered by this holder
Release(t) ==
    /\ Instr(thr[t]) = "Unlock"
    /\ lock' = IF lock = t THEN NoThread ELSE lock
    /\ thr' = [u \in Threads |->
                 IF u = t THEN [thr[u] EXCEPT !.pc = @ + 1]
                 ELSE [thr[u] EXCEPT !.covered = FALSE]]
    /\ UNCHANGED << current, origin, cmpoint, hasSchemaChange, closed, queries,
                    failed, unc, committed, lastWrite, finalized, last,
                    txlog >>
    /\ UNCHANGED node

\* atomic.LoadUint32(&s.hasSchemaChange) at the head of readTx
LoadFlag(t) ==
    /\ Instr(thr[t]) = "loadFlag"
    /\ thr' = [thr EXCEPT ![t].pc = @ + 1,
                          ![t].path = readPath(hasSchemaChange),
                          ![t].covered = (lock # NoThread /\ lock # t)]
    /\ UNCHANGED << current, origin, cmpoint, hasSchemaChange, closed, queries,
                    failed, unc, committed, lastWrite, finalized, last,
                    lock, txlog >>
    /\ UNCHANGED node

\* the read on the dirty reader: no lock, nothing on the write transaction
DirtyRead(t) ==
    /\ Instr(thr[t]) = "dirtyRead"
    /\ \E f \in 0 .. NQ(thr[t].req) :
          Install(IF closed THEN St
                       ELSE readTxOn(St, thr[t].req, f, "dirty").s)
    /\ thr' = Advance(t)
    /\ UNCHANGED << lastWrite, finalized, last, lock, txlog >>
    /\ UNCHANGED node

\* the body of a call on a transaction that Close has finished: the backend
\* refuses every statement, and write and readTx record the request as failed
ClosedBody(s, step, req) ==
    IF step \in {"write", "readTx"}
    THEN [s EXCEPT !.failed = setFailed(@, req)]
    ELSE s

\* the states a step on the write transaction may leave
Body(s, c) ==
    LET step == Instr(c)
        block == << [req |-> c.req, off |-> c.off] >>
    IN  IF s.closed THEN { ClosedBody(s, step, c.req) }
        ELSE CASE step = "write" ->
                    { write(s, c.req, f).s : f \in 0 .. NQ(c.req) }
               [] step = "replay" ->
                    { ReplayWithContext(s, c.req, c.off, f).s : f \in 0 .. NQ(c.req) }
               [] step = "block" ->
                    { ReplayBlockWithContext(s, block, {}, fail).s :
                        fail \in FailPoints(block) }
               [] step = "commitEx" -> { commitTx(s) }
               [] step = "readTx" ->
                    { readTxOn(s, c.req, f, "tx").s : f \in 0 .. NQ(c.req) }
               [] step = "rollback" -> { rollback(s) }
               [] step = "closeCommit" -> { [uncCommit(s) EXCEPT !.closed = TRUE] }
               [] OTHER -> { s }

\* where a thread goes on after a step on the write transaction: a commit
\* that fails (the transaction is finished) makes CommitExWithContext return
\* before it looks at the pool; off keeps for Close the id its rollback went
\* back to, below which every statement left in the transaction was executed
AfterTxStep(t) ==
    CASE Instr(thr[t]) = "commitEx" ->
             IF closed THEN [thr EXCEPT ![t].pc = @ + 2]
             ELSE [thr EXCEPT ![t].pc = @ + 1, ![t].retF = failedList(failed)]
      [] Instr(thr[t]) = "rollback" ->
             [thr EXCEPT ![t].pc = @ + 1, ![t].off = cmpoint]
      [] OTHER -> Advance(t)

\* a step on the write transaction
TxStep(t) ==
    /\ Instr(thr[t]) \in TxSteps
    /\ \E r \in Body(St, thr[t]) :
          /\ InBounds(r)
          /\ Install(r)
    /\ txlog' = IF lock = t THEN txlog
                ELSE [by |-> t, what |-> Instr(thr[t]), held |-> FALSE]
    /\ thr' = AfterTxStep(t)
    /\ UNCHANGED << lastWrite, finalized, last, lock >>
    /\ UNCHANGED node

\* s.pool = newPool() at the end of CommitExWithContext; lost are the
\* requests of the failed set that the list taken before does not hold
ResetPool(t) ==
    /\ Instr(thr[t]) = "newPool"
    /\ Install(newPool(St))
    /\ thr' = [thr EXCEPT ![t].pc = @ + 1,
                          ![t].lost = failed \ thr[t].retF]
    /\ UNCHANGED << lastWrite, finalized, last, lock, txlog >>
    /\ UNCHANGED node

\* "if s.closed { return }" at the head of Close
CheckClosed(t) ==
    /\ Instr(thr[t]) = "closed?"
    /\ thr' = [thr EXCEPT ![t].pc = IF closed THEN Len(Program(thr[t])) + 1
                                    ELSE @ + 1]
    /\ UNCHANGED << current, origin, cmpoint, hasSchemaChange, closed, queries,
                    failed, unc, committed, lastWrite, finalized, last,
                    lock, txlog >>
    /\ UNCHANGED node

\* the call returns to its caller
Finish(t) ==
    /\ thr[t].op # "-"
    /\ Instr(thr[t]) = "-"
    /\ thr' = [thr EXCEPT ![t] = NoThreadCall]
    /\ UNCHANGED << current, origin, cmpoint, hasSchemaChange, closed, queries,
                    failed, unc, committed, lastWrite, finalized, last,
                    lock, txlog >>
    /\ UNCHANGED node

NextConc ==
    \/ InitTx(InitID)
    \/ Return
    \/ \E t \in Threads :
          \/ \E req \in ConcWrites \cup ConcReads : Start(t, "Query", req, FALSE)
          \/ \E req \in ConcReplays : Start(t, "Replay", req, FALSE)
          \/ \E req \in ConcReplays : Start(t, "ReplayBlock", req, FALSE)
          \/ Start(t, "CommitEx", "-", FALSE)
          \/ \E commit \in BOOLEAN : Start(t, "Close", "-", commit)
    \/ \E t \in Threads : Acquire(t)
    \/ \E t \in Threads : Release(t)
    \/ \E t \in Threads : LoadFlag(t)
    \/ \E t \in Threads : DirtyRead(t)
    \/ \E t \in Threads : TxStep(t)
    \/ \E t \in Threads : ResetPool(t)
    \/ \E t \in Threads : CheckClosed(t)
    \/ \E t \in Threads : Finish(t)

SpecConc == Init /\ [][NextConc]_vars

(***************************************************************************)
(* The threads under fair scheduling.  Every write of this specification   *)
(* is the two-statement request, sent through Query, Replay and            *)
(* ReplayBlock.                                                            *)
(***************************************************************************)
FairWrites == {"W2"}

NextFair ==
    \/ InitTx(InitID)
    \/ Return
    \/ \E t \in Threads :
          \/ \E req \in FairWrites \cup ConcReads : Start(t, "Query", req, FALSE)
          \/ \E req \in FairWrites : Start(t, "Replay", req, FALSE)
          \/ \E req \in FairWrites : Start(t, "ReplayBlock", req, FALSE)
          \/ Start(t, "CommitEx", "-", FALSE)
          \/ \E commit \in BOOLEAN : Start(t, "Close", "-", commit)
    \/ \E t \in Threads : Acquire(t)
    \/ \E t \in Threads : Release(t)
    \/ \E t \in Threads : LoadFlag(t)
    \/ \E t \in Threads : DirtyRead(t)
    \/ \E t \in Threads : TxStep(t)
    \/ \E t \in Threads : ResetPool(t)
    \/ \E t \in Threads : CheckClosed(t)
    \/ \E t \in Threads : Finish(t)

\* a step of a call that neither waits for the lock nor calls the backend
LocalStep(t) ==
    \/ Release(t)
    \/ LoadFlag(t)
    \/ DirtyRead(t)
    \/ ResetPool(t)
    \/ CheckClosed(t)
    \/ Finish(t)

\* a thread at a step on the write transaction can take it: the backend
\* answers every call, with a result or with an error
AtTxStep(t) == Instr(thr[t]) \in TxSteps

\* every thread keeps running and every backend call returns (weak fairness
\* of LocalStep and of TxStep, the latter written out with AtTxStep for
\* ENABLED TxStep); the lock is handed out fairly: a thread that finds it
\* free again and again gets it (strong fairness of Acquire)
Fairness ==
    \A t \in Threads :
        /\ WF_vars(LocalStep(t))
        /\ SF_vars(Acquire(t))
        /\ ([]<>(~AtTxStep(t)) \/ []<><<TxStep(t)>>_vars)

SpecFair == Init /\ [][NextFair]_vars /\ Fairness

(***************************************************************************)
(* Properties.  `last' is the call that has just returned; its fields      *)
(* cur0, pool0, failed0, db0 are the state the call started from.          *)
(***************************************************************************)
HasTracker(q, sp, req) == \E i \in DOMAIN q : q[i].sp = sp /\ q[i].req = req

WriteOk == last.op = "write" /\ last.res = "ok"

\* C1: of two write requests that succeed through Query, the one that takes
\* the lock first gets the strictly lower LogOffset, whatever the number of
\* queries of the requests.
C1_MonotoneLogOffsets ==
    (WriteOk /\ last.prevW # NoOff) => last.prevW < last.off

\* C2: right after a write request succeeds through Query with response R,
\* the pool holds a tracker under key R.LogOffset whose Request is the
\* submitted request.
C2_TrackerAtLogOffset ==
    WriteOk => HasTracker(queries, last.off, last.req)

C2_Witness ==
    /\ WriteOk
    /\ NQ(last.req) = 2
    /\ last.pool0 # << >>

\* C3: in every reachable state no request is both in the failed set of the
\* pool and the Request of a pooled tracker.
C3_FailedDisjointFromApplied ==
    \A i \in DOMAIN queries : queries[i].req \notin failed

WriteQueryFailed ==
    /\ last.op = "write"
    /\ last.f \in 1 .. NQ(last.req)

\* C4: when a query of a write request fails during Query, after zero or
\* more of its earlier queries succeeded, the call returns an error, current
\* is back at its value at the start of the request, the request is in the
\* failed set, and the pool holds exactly the trackers it held before.
C4_FailedWriteRollsBack ==
    WriteQueryFailed =>
        /\ last.res # "ok"
        /\ current = last.cur0
        /\ last.req \in failed
        /\ queries = last.pool0

C4_Witness ==
    /\ WriteQueryFailed
    /\ last.n >= 1
    /\ last.req \notin last.failed0
    /\ last.pool0 # << >>

BlockOk == last.op = "ReplayBlock" /\ last.res = "ok"

BlockOffsets == { last.block[i].off : i \in DOMAIN last.block }

\* C5: a successful ReplayBlock commits the underlying transaction and opens
\* a fresh one (origin = cmpoint = current, no tracker left in the pool)
\* exactly when, after reconciliation, the pool holds no tracker beyond the
\* last entry of the block.
C5_CommitIffNoTail ==
    (BlockOk /\ last.block # << >>) =>
        LET lastOff == last.block[Len(last.block)].off
            noTail == \A i \in DOMAIN last.poolRec : last.poolRec[i].sp <= lastOff
        IN  /\ last.didCommit <=> noTail
            /\ last.didCommit =>
                   /\ origin = current
                   /\ cmpoint = current
                   /\ queries = << >>

AllEntriesPooled ==
    \A i \in DOMAIN last.block :
        HasTracker(last.pool0, last.block[i].off, last.block[i].req)

TailOf(q) == { i \in DOMAIN q : \A o \in BlockOffsets : q[i].sp > o }

\* C6: when the pool holds trackers above the highest offset of the block and
\* every entry of the block matches a pooled tracker, ReplayBlock succeeds
\* without committing, the tail trackers stay in the pool and the trackers at
\* the offsets of the block are removed.
C6_TailSurvivesBlock ==
    ( /\ last.op = "ReplayBlock"
      /\ last.block # << >>
      /\ AllEntriesPooled
      /\ TailOf(last.pool0) # {} ) =>
        /\ last.res = "ok"
        /\ ~last.didCommit
        /\ \A i \in TailOf(last.pool0) :
               HasTracker(queries, last.pool0[i].sp, last.pool0[i].req)
        /\ \A i \in DOMAIN queries : queries[i].sp \notin BlockOffsets

\* C7: after Close(false) the backend has committed only the effects of
\* writes finalized by a block or by CommitEx.
C7_CloseCommitsFinalizedOnly ==
    (last.op = "Close" /\ ~last.arg /\ last.didCommit) =>
        committed \subseteq finalized

ReplayOfWrite == last.op = "replay" /\ QueryType(last.req) = "Write"

\* C8: Replay of a write request whose response LogOffset is greater than
\* current returns MissingParent and leaves current and the pool unchanged.
C8_ReplayAheadMissingParent ==
    (ReplayOfWrite /\ last.off > last.cur0) =>
        /\ last.res = "MissingParent"
        /\ current = last.cur0
        /\ queries = last.pool0

\* C9: Replay of a write request whose response LogOffset is less than
\* current returns QueryConflict, executes no query, and leaves current and
\* the pool unchanged.
C9_ReplayBehindConflict ==
    (ReplayOfWrite /\ last.off < last.cur0) =>
        /\ last.res = "QueryConflict"
        /\ last.n = 0
        /\ current = last.cur0
        /\ queries = last.pool0
        /\ committed = last.db0

C9_Witness ==
    /\ ReplayOfWrite
    /\ last.off < last.cur0
    /\ NQ(last.req) > 0
    /\ last.f = 0

\* the trackers ReplayBlock pooled for the entries before entry i
PooledBefore(i) ==
    LET done == SelectSeq(SubSeq(last.trace, 1, i - 1), LAMBDA st : st.act = "replay")
    IN  [ j \in 1 .. Len(done) |-> Tracker(done[j].cur, done[j].req, done[j].off) ]

\* the pool as entry i of the block found it
PoolAt(i) == last.pool0 \o PooledBefore(i)

BelowCurrent(i) == last.trace[i].off < last.trace[i].cur

EntryMatched(i) == HasTracker(PoolAt(i), last.trace[i].off, last.trace[i].req)

EntrySkipped(i) == last.trace[i].act = "skip" /\ last.trace[i].n = 0

EntryConflict(i) ==
    /\ last.trace[i].act = "QueryConflict"
    /\ last.res = "QueryConflict"
    /\ ~last.didCommit
    /\ committed = last.db0

\* C10 as stated: in ReplayBlock an entry below current is skipped without
\* executing anything if the pool holds a tracker at its offset with an equal
\* request; otherwise ReplayBlock returns QueryConflict, does not commit, and
\* leaves the pool as it was before the call.
C10_ConflictLeavesPoolAsBeforeCall ==
    last.op = "ReplayBlock" =>
        \A i \in DOMAIN last.trace :
            BelowCurrent(i) =>
                IF EntryMatched(i) THEN EntrySkipped(i)
                ELSE EntryConflict(i) /\ queries = last.pool0

\* C10 as amended: ... otherwise ReplayBlock returns QueryConflict, does not
\* commit, and leaves the pool as that entry found it: the trackers pooled
\* for the earlier entries of the block stay, and nothing else changes.
C10_ConflictLeavesPoolAsEntryFoundIt ==
    last.op = "ReplayBlock" =>
        \A i \in DOMAIN last.trace :
            BelowCurrent(i) =>
                IF EntryMatched(i) THEN EntrySkipped(i)
                ELSE EntryConflict(i) /\ queries = PoolAt(i)

C10_Witness ==
    /\ last.op = "ReplayBlock"
    /\ Len(last.trace) = 2
    /\ last.trace[1].act = "replay"
    /\ BelowCurrent(2)
    /\ ~EntryMatched(2)
    /\ last.pool0 # << >>

C10_WitnessSkip ==
    /\ last.op = "ReplayBlock"
    /\ \E i \in DOMAIN last.trace : BelowCurrent(i) /\ EntryMatched(i)

\* the offsets of the statements still in the write transaction
StmtIds == { e.id : e \in TxEffects(unc) }

EntryAhead(i) == last.trace[i].off > last.trace[i].cur

\* C11: ReplayBlock returns MissingParent when it reaches an entry whose
\* offset is greater than current at that point of the iteration, and then
\* executes no query of that entry or of any later entry.
C11_BlockAheadMissingParent ==
    last.op = "ReplayBlock" =>
        \A i \in DOMAIN last.trace :
            EntryAhead(i) =>
                /\ last.res = "MissingParent"
                /\ last.trace[i].act = "MissingParent"
                /\ i = Len(last.trace)
                /\ current = last.trace[i].cur
                /\ \A id \in StmtIds : id < last.trace[i].cur

C11_Witness ==
    /\ last.op = "ReplayBlock"
    /\ Len(last.block) = 2
    /\ Len(last.trace) = 1
    /\ EntryAhead(1)
    /\ NQ(last.block[1].req) > 0
    /\ NQ(last.block[2].req) > 0

\* C12: after every successful ReplayBlock with a non-empty entry list, every
\* tracker left in the pool has a key strictly greater than the highest
\* offset among the entries of the block.
C12_PoolAboveBlock ==
    (BlockOk /\ last.block # << >>) =>
        \A i \in DOMAIN queries : \A o \in BlockOffsets : queries[i].sp > o

C12_Witness ==
    /\ BlockOk
    /\ last.block # << >>
    /\ TailOf(last.pool0) # {}
    /\ \E i \in DOMAIN last.trace : last.trace[i].act = "skip"

BlockCommitted == BlockOk /\ last.didCommit

\* C13: after a successful ReplayBlock that commits the underlying
\* transaction the pool holds no tracker for a write that is an entry of the
\* block; the pool holds no tracker right after any commit of the underlying
\* transaction by ReplayBlock or CommitEx.
C13_NoTrackerAfterCommit ==
    /\ BlockCommitted =>
           /\ \A i \in DOMAIN last.block :
                  ~HasTracker(queries, last.block[i].off, last.block[i].req)
           /\ queries = << >>
    /\ last.op = "CommitEx" => queries = << >>

C13_Witness ==
    /\ BlockCommitted
    /\ last.block # << >>
    /\ last.pool0 # << >>
    /\ last.eff0 # {}

\* C14: a successful CommitEx commits the underlying transaction, returns
\* exactly the trackers and the failed requests that were in the pool,
\* leaves the pool empty, leaves current unchanged and sets
\* origin = cmpoint = current.
C14_CommitEx ==
    last.op = "CommitEx" =>
        /\ committed = last.db0 \cup last.eff0
        /\ TxEffects(unc) = {}
        /\ last.retQ = last.pool0
        /\ last.retF = last.failed0
        /\ queries = << >>
        /\ failed = {}
        /\ current = last.cur0
        /\ origin = current
        /\ cmpoint = current

C14_Witness ==
    /\ last.op = "CommitEx"
    /\ last.pool0 # << >>
    /\ last.failed0 # {}
    /\ last.eff0 # {}
    /\ last.origin0 # last.cur0
    /\ last.cmpoint0 # last.cur0

\* the call that made this step executed a DDL statement successfully
RanDDL(c) ==
    \/ /\ c.op \in {"write", "replay"}
       /\ \E j \in 1 .. c.n : Queries(c.req)[j] = "ddl"
    \/ /\ c.op = "ReplayBlock"
       /\ \E i \in DOMAIN c.trace :
              \E j \in 1 .. c.trace[i].n : Queries(c.trace[i].req)[j] = "ddl"

\* the call that made this step committed the underlying transaction
Committed(c) == c.op \in {"ReplayBlock", "CommitEx", "Close"} /\ c.didCommit

FlagStep ==
    /\ Committed(last') => hasSchemaChange' = 0
    /\ (~Committed(last') /\ (hasSchemaChange = 1 \/ RanDDL(last'))) =>
           hasSchemaChange' = 1
    /\ (last'.op = "read" /\ hasSchemaChange = 1) => last'.path = "tx"

\* C15: the schema-change flag is 1 in every state between the successful
\* execution of a DDL statement on the write transaction and the next commit
\* of the underlying transaction, that commit resets it to 0, and every read
\* request that observes the flag as 1 runs on the write transaction (the
\* branch that takes the exclusive lock) and not on the dirty reader.
C15_SchemaChangeFlag == [][FlagStep]_vars

C15_Witness ==
    /\ last.op = "read"
    /\ last.path = "tx"
    /\ last.res = "ok"
    /\ hasSchemaChange = 1
    /\ \A e \in TxEffects(unc) : e.req # "W2"

\* C16: after a sequence of successful writes followed by rollbackTo(k),
\* current equals k and the next successful write through Query gets
\* LogOffset k.
C16_RollbackRoundTrip ==
    /\ last.rb # NoRb => current = last.rb.k
    /\ (WriteOk /\ last.rolled0 # NoRb) => last.off = last.rolled0.k

C16_Witness ==
    /\ WriteOk
    /\ last.rolled0.n > 0
    /\ NQ(last.req) > 0

BlockFailed == last.op = "ReplayBlock" /\ last.res # "ok"

C20_FailedPurged ==
    BlockOk =>
        /\ \A r \in last.retF : r \notin failed
        /\ \A r \in last.failed0 \ last.retF : r \in failed

C20_Witness ==
    /\ BlockOk
    /\ last.retF # {}
    /\ last.failed0 \ last.retF # {}

\* a read that took the dirty-reader branch / the transactional branch
OnDirtyPath(t) == thr[t].op = "Query" /\ thr[t].path = "dirty"

OnTxPath(t) == thr[t].op = "Query" /\ thr[t].path = "tx"

\* C17: a read request on the dirty-read path never acquires the state lock,
\* so it can start and complete while a write, replay, block replay or commit
\* holds the exclusive lock; a read on the transactional-fallback path
\* executes no query while another operation holds the exclusive lock.
C17_ReadsAndTheLock ==
    \A t \in Threads :
        /\ OnDirtyPath(t) =>
               /\ lock # t
               /\ Instr(thr[t]) \notin {"Lock", "Unlock"} \cup TxSteps
               /\ Instr(thr[t]) = "dirtyRead" => ENABLED DirtyRead(t)
        /\ (OnTxPath(t) /\ Instr(thr[t]) = "readTx") => lock = t
        /\ (txlog.by = t /\ txlog.what = "readTx") => txlog.held

\* a dirty read began and completed while one other call held the lock
C17_Witness ==
    \E t \in Threads, u \in Threads :
        /\ OnDirtyPath(t)
        /\ Instr(thr[t]) = "-"
        /\ thr[t].covered
        /\ lock = u
        /\ u # t
        /\ thr[u].op \in {"Query", "Replay", "ReplayBlock", "CommitEx"}

C17_WitnessTx ==
    \E t \in Threads, u \in Threads :
        /\ OnTxPath(t)
        /\ Instr(thr[t]) = "Lock"
        /\ lock = u
        /\ u # t

\* C18: under every interleaving of concurrent Query, Replay, ReplayBlock,
\* CommitEx and Close calls made after initialization, every statement,
\* savepoint, rollback-to and commit on the write transaction is issued by a
\* thread that holds the exclusive lock, so at most one operation at a time
\* acts on the write transaction.
C18_TxOnlyUnderLock ==
    /\ txlog.held
    /\ \A t \in Threads : Instr(thr[t]) \in TxSteps => lock = t
    /\ Cardinality({ t \in Threads : Instr(thr[t]) \in TxSteps }) <= 1

C18_Witness ==
    \E t \in Threads, u \in Threads :
        /\ thr[t].op = "Close"
        /\ ~thr[t].commit
        /\ Instr(thr[t]) = "closeCommit"
        /\ thr[u].op = "Query"
        /\ QueryType(thr[u].req) = "Write"
        /\ Instr(thr[u]) = "Lock"

\* the schema-change flag is as it was when the call began
FlagUnchanged == (hasSchemaChange = 1) = last.arg

ReadOnTx == last.op = "read" /\ last.path = "tx"

\* C21: a read request on the transactional-fallback path leaves current,
\* origin, cmpoint and the pooled trackers exactly as they were when it
\* acquired the lock, whether its queries succeed or fail (a cancellation is
\* a failing query): the rollback to the snapshot runs on every exit path.
C21_FallbackReadFrame ==
    ReadOnTx =>
        /\ current = last.cur0
        /\ origin = last.origin0
        /\ cmpoint = last.cmpoint0
        /\ queries = last.pool0
        /\ last.rb.k = last.cur0
        /\ TxEffects(unc) = last.eff0

C21_Witness ==
    /\ ReadOnTx
    /\ last.f = 2
    /\ last.pool0 # << >>
    /\ last.eff0 # {}

ReadOk == last.op = "read" /\ last.res = "ok"

\* C22: the LogOffset in a successful read response equals the value current
\* had when the read started; after one single-query write at the initial
\* offset a following read reports that offset plus one.
C22_ReadLogOffset ==
    ReadOk => last.off = last.cur0

C22_Witness ==
    /\ ReadOk
    /\ last.pool0 = << Tracker(InitID, "W1", NoOff) >>
    /\ last.off = InitID + 1

ReadQueryFailed == last.op = "read" /\ last.f \in 1 .. NQ(last.req)

\* C23: when a query of a read request fails on either read path, the
\* request is added to the failed set of the pool, no later query of the
\* request is executed, and the call returns an error with no response.
C23_FailedReadRecorded ==
    ReadQueryFailed =>
        /\ last.res # "ok"
        /\ last.off = NoOff
        /\ last.req \in failed
        /\ last.n = last.f - 1

C23_Witness ==
    /\ ReadQueryFailed
    /\ last.path = "dirty"
    /\ last.f = 1
    /\ NQ(last.req) = 2
    /\ last.req \notin last.failed0

C23_WitnessTx ==
    /\ ReadQueryFailed
    /\ last.path = "tx"
    /\ last.f = 1
    /\ last.req \notin last.failed0

ReplayInOrder == ReplayOfWrite /\ last.off = last.cur0 /\ last.f = 0

\* C24: Replay of a write request whose response LogOffset equals current
\* and whose queries all succeed enqueues one tracker under that LogOffset
\* holding the supplied request and the supplied response, and advances
\* current by the number of queries in the request.
C24_ReplayEnqueues ==
    ReplayInOrder =>
        /\ last.res = "ok"
        /\ queries = Append(last.pool0, Tracker(last.off, last.req, last.off))
        /\ current = last.cur0 + NQ(last.req)

C24_Witness ==
    /\ ReplayInOrder
    /\ NQ(last.req) = 2
    /\ last.pool0 # << >>

ReplayOfRead == last.op = "replay" /\ QueryType(last.req) = "Read"

\* C25: Replay of a read-type request returns success without acquiring the
\* lock and leaves current, the pool trackers, the failed set and the
\* schema-change flag unchanged, whatever LogOffset its response carries.
C25_ReplayOfReadIgnored ==
    ReplayOfRead =>
        /\ last.res = "ok"
        /\ last.path = "nolock"
        /\ current = last.cur0
        /\ queries = last.pool0
        /\ failed = last.failed0
        /\ FlagUnchanged
        /\ TxEffects(unc) = last.eff0

C25_Witness ==
    /\ ReplayOfRead
    /\ last.off # last.cur0
    /\ last.f = 1
    /\ last.pool0 # << >>
    /\ hasSchemaChange = 1

CloseAgain == last.op = "Close" /\ ~last.didCommit

\* C26: Close is idempotent: once a Close call has returned, any later Close
\* call, with either value of commit, returns without error and performs no
\* rollback, no commit and no storage close.
C26_CloseIdempotent ==
    CloseAgain =>
        /\ last.res = "ok"
        /\ closed
        /\ last.rb = NoRb
        /\ committed = last.db0
        /\ current = last.cur0
        /\ TxEffects(unc) = last.eff0

C26_Witness ==
    /\ CloseAgain
    /\ ~last.arg
    /\ last.cmpoint0 # last.cur0

TranslateFailed == last.op \in {"write", "read"} /\ last.kind = "translate"

\* C27: when the translation of a query fails in a read or write request,
\* the error is returned to the caller and the state is unchanged: current,
\* the pooled trackers, the failed set and the schema-change flag are as
\* before the call.
C27_TranslateErrorNoChange ==
    TranslateFailed =>
        /\ last.res # "ok"
        /\ current = last.cur0
        /\ queries = last.pool0
        /\ failed = last.failed0
        /\ FlagUnchanged

\* the statements a block replay executed in the entries it replayed
RECURSIVE ReplayedN(_, _)
ReplayedN(trace, i) ==
    IF i > Len(trace) THEN 0
    ELSE (IF trace[i].act = "replay" THEN trace[i].n ELSE 0) + ReplayedN(trace, i + 1)

\* the statements of the last call that executed and were not rolled back
AdvancedBy ==
    CASE last.op \in {"write", "replay"} -> IF last.res = "ok" THEN last.n ELSE 0
      [] last.op = "ReplayBlock"         -> ReplayedN(last.trace, 1)
      [] OTHER                           -> 0

\* C29: current advances by exactly one for each query statement that
\* executes successfully on the write transaction and by nothing else: after
\* a successful write request of n queries started at current = s,
\* current = s + n and the savepoint issued at the end is named s + n.
C29_CurrentCountsStatements ==
    /\ WriteOk =>
           /\ last.n = NQ(last.req)
           /\ current = last.cur0 + NQ(last.req)
           /\ unc # << >>
           /\ unc[Len(unc)] = SP(last.cur0 + NQ(last.req))
    /\ last.op \in {"write", "read", "query", "replay", "ReplayBlock", "CommitEx"} =>
           current = last.cur0 + AdvancedBy
    /\ last.op = "Close" => current <= last.cur0

C29_Witness ==
    /\ WriteOk
    /\ NQ(last.req) = 2
    /\ current = last.cur0 + 2
    /\ unc[Len(unc)] = SP(current)

\* C30: in every reachable state the keys of the pooled trackers are
\* pairwise distinct, each enqueue uses a key greater than every key already
\* in the pool, and every key k satisfies origin <= k < current.
C30_PoolKeysOrdered ==
    /\ \A i \in DOMAIN queries : \A j \in DOMAIN queries :
           i < j => queries[i].sp < queries[j].sp
    /\ \A i \in DOMAIN queries :
           origin <= queries[i].sp /\ queries[i].sp < current

\* a CommitEx call that has reset the pool
PoolReset(t) == thr[t].op = "CommitEx" /\ Instr(thr[t]) = "Unlock" /\ ~closed

\* C28: every request recorded as failed, also by a dirty read that runs
\* concurrently with CommitEx, is in the failed list of a later CommitEx
\* unless a block replay purged it: the failed set that a CommitEx discards
\* when it resets the pool holds no request its returned list does not hold.
C28_NoFailedRequestLost ==
    \A t \in Threads : PoolReset(t) => thr[t].lost = {}

(***************************************************************************)
(* The database registry of the miner: DBMS.Create called by the threads,  *)
(* each call followed step by step.  dbMap is a sync.Map; its Load,        *)
(* LoadOrStore and Delete are atomic.                                      *)
(***************************************************************************)
\* the variables of State
stateVars == << current, origin, cmpoint, hasSchemaChange, closed, queries,
                failed, unc, committed, lastWrite, finalized, last,
                lock, thr, txlog >>

Err(cause) == [cause |-> cause, msg |-> ""]

ErrAlreadyExists == Err("ErrAlreadyExists")

\* dbms.dbMap.Load(dbID)
getMeta(m, id) == m[id] # NoThread

\* dbms.dbMap.LoadOrStore(dbID, db); loaded tells that the id was there
LoadOrStore(m, id, t) ==
    IF m[id] # NoThread THEN [m |-> m, loaded |-> TRUE]
    ELSE [m |-> [m EXCEPT ![id] = t], loaded |-> FALSE]

\* dbms.dbMap.Delete(dbID)
removeMeta(m, id) == [m EXCEPT ![id] = NoThread]

CreateGoto(t, pc, err) == [cre EXCEPT ![t].pc = pc, ![t].err = err]

\* a thread calls Create(instance, cleanup)
CreateStart(t, id, cleanup) ==
    /\ cre[t].pc = "-"
    /\ cre' = [cre EXCEPT ![t] = [pc |-> "getMeta", id |-> id, cleanup |-> cleanup,
                                  db |-> FALSE, err |-> Nil]]
    /\ UNCHANGED << dbMap, checks >>
    /\ UNCHANGED stateVars

\* "if _, alreadyExists := dbms.getMeta(...); alreadyExists": returns before
\* the deferred function is set up
CreateGetMeta(t) ==
    /\ cre[t].pc = "getMeta"
    /\ cre' = IF getMeta(dbMap, cre[t].id)
              THEN CreateGoto(t, "done", ErrAlreadyExists)
              ELSE CreateGoto(t, IF cre[t].cleanup THEN "RemoveAll" ELSE "NewDatabase", Nil)
    /\ UNCHANGED << dbMap, checks >>
    /\ UNCHANGED stateVars

\* os.RemoveAll(rootDir): its error is returned before the deferred function
\* is set up
CreateRemoveAll(t) ==
    /\ cre[t].pc = "RemoveAll"
    /\ \E ok \in BOOLEAN :
          cre' = IF ok THEN CreateGoto(t, "NewDatabase", Nil)
                 ELSE CreateGoto(t, "done", Err("RemoveAllError"))
    /\ UNCHANGED << dbMap, checks >>
    /\ UNCHANGED stateVars

\* NewDatabase(dbCfg, peers, genesis)
CreateNewDatabase(t) ==
    /\ cre[t].pc = "NewDatabase"
    /\ \E ok \in BOOLEAN :
          cre' = IF ok THEN [cre EXCEPT ![t].pc = "addMeta", ![t].db = TRUE]
                 ELSE CreateGoto(t, "deferred", Err("NewDatabaseError"))
    /\ UNCHANGED << dbMap, checks >>
    /\ UNCHANGED stateVars

\* addMeta: LoadOrStore, ErrAlreadyExists when the id was there
CreateAddMeta(t) ==
    /\ cre[t].pc = "addMeta"
    /\ LET r == LoadOrStore(dbMap, cre[t].id, t)
       IN  /\ dbMap' = r.m
           /\ cre' = IF r.loaded THEN CreateGoto(t, "deferred", ErrAlreadyExists)
                     ELSE CreateGoto(t, "writeMeta", Nil)
    /\ UNCHANGED checks
    /\ UNCHANGED stateVars

\* addMeta: "return dbms.writeMeta()"
CreateWriteMeta(t) ==
    /\ cre[t].pc = "writeMeta"
    /\ \E ok \in BOOLEAN :
          cre' = CreateGoto(t, "deferred", IF ok THEN Nil ELSE Err("WriteMetaError"))
    /\ UNCHANGED << dbMap, checks >>
    /\ UNCHANGED stateVars

\* the deferred function: "close on failed", db.Shutdown() and
\* dbms.removeMeta(instance.DatabaseID)
CreateDeferred(t) ==
    /\ cre[t].pc = "deferred"
    /\ IF cre[t].err # Nil
       THEN /\ dbMap' = removeMeta(dbMap, cre[t].id)
            /\ cre' = [cre EXCEPT ![t].pc = "done", ![t].db = FALSE]
       ELSE /\ dbMap' = dbMap
            /\ cre' = [cre EXCEPT ![t].pc = "done"]
    /\ UNCHANGED checks
    /\ UNCHANGED stateVars

NextDBMS ==
    \/ \E t \in Threads : \E id \in DBIDs, cleanup \in BOOLEAN : CreateStart(t, id, cleanup)
    \/ \E t \in Threads : CreateGetMeta(t)
    \/ \E t \in Threads : CreateRemoveAll(t)
    \/ \E t \in Threads : CreateNewDatabase(t)
    \/ \E t \in Threads : CreateAddMeta(t)
    \/ \E t \in Threads : CreateWriteMeta(t)
    \/ \E t \in Threads : CreateDeferred(t)

SpecDBMS == Init /\ [][NextDBMS]_vars

(***************************************************************************)
(* The chain handler of the block producer: Chain.Check, as a function of  *)
(* the type of the raw request and of the result of its Verify.            *)
(***************************************************************************)
ErrUnknownChainOPType == Err("ErrUnknownChainOPType")

\* errors.Wrap and errors.Wrapf: a nil error stays nil
Wrap(err, msg) ==
    IF err = Nil THEN Nil ELSE [cause |-> err.cause, msg |-> msg]

\* the types of raw request: *types.Block, pi.Transaction, anything else
ReqKinds == {"Block", "Transaction", "Other"}

\* what Verify returns; it is not called for a request of another type
VerifyResults(kind) ==
    IF kind = "Other" THEN { Nil } ELSE { Nil, Err("ErrVerify") }

\* Check: err is the named result, nil until it is assigned
Check(kind, ierr) ==
    LET err == Nil
    IN  CASE kind = "Block" ->
                 IF ierr # Nil THEN Wrap(err, "failed to verify block") ELSE err
          [] kind = "Transaction" ->
                 IF ierr # Nil THEN Wrap(err, "failed to verify transaction") ELSE err
          [] OTHER -> Wrap(ErrUnknownChainOPType, "raw request")

\* kayak calls Check on a raw request
CheckCall(kind, ierr) ==
    /\ Len(checks) < MaxChecks
    /\ checks' = Append(checks, [kind |-> kind, verify |-> ierr,
                                 err |-> Check(kind, ierr)])
    /\ UNCHANGED << dbMap, cre >>
    /\ UNCHANGED stateVars

NextChain ==
    \E kind \in ReqKinds : \E ierr \in VerifyResults(kind) : CheckCall(kind, ierr)

SpecChain == Init /\ [][NextChain]_vars

(***************************************************************************)
(* Properties of the calls on State, of the registry and of the chain      *)
(* handler.                                                                *)
(***************************************************************************)
InvalidCall == last.op \in {"query", "replay"} /\ QueryType(last.req) = "Invalid"

\* C31: Query and Replay called with a request whose type is neither Read
\* nor Write return InvalidRequest without acquiring the lock and without
\* changing current, the pool or the write transaction.
C31_InvalidRequestNoEffect ==
    InvalidCall =>
        /\ last.res = "InvalidRequest"
        /\ last.path = "nolock"
        /\ last.rb = NoRb
        /\ current = last.cur0
        /\ queries = last.pool0
        /\ failed = last.failed0
        /\ TxEffects(unc) = last.eff0

C31_Witness ==
    /\ InvalidCall
    /\ last.op = "query"
    /\ last.pool0 # << >>
    /\ last.eff0 # {}

C31_WitnessReplay ==
    /\ InvalidCall
    /\ last.op = "replay"
    /\ last.off = last.cur0

ReplayQueryFailed ==
    /\ ReplayOfWrite
    /\ last.off = last.cur0
    /\ last.f \in 1 .. NQ(last.req)

\* C33: Replay never changes the failed set of the pool: when a query of a
\* replayed write fails, the call returns an error, current is restored to
\* its value at the start of the call, no tracker is enqueued, and the
\* request is not added to the failed set.
C33_ReplayKeepsFailedSet ==
    /\ last.op = "replay" => failed = last.failed0
    /\ ReplayQueryFailed =>
           /\ last.res # "ok"
           /\ current = last.cur0
           /\ last.rb.k = last.cur0
           /\ queries = last.pool0
           /\ TxEffects(unc) = last.eff0

C33_Witness ==
    /\ ReplayQueryFailed
    /\ last.f = 2
    /\ last.rb.n = 1
    /\ last.req \notin failed

C35_CounterOrder ==
    lock = NoThread => (origin <= cmpoint /\ cmpoint <= current)

C35_Witness ==
    /\ lock = NoThread
    /\ origin < cmpoint
    /\ cmpoint < current
    /\ ~closed

\* the open transaction holds a DDL statement that was not rolled back (the
\* requests of the model that carry a DDL statement carry it first)
TxHasDDL(tx) ==
    \E i \in DOMAIN tx : tx[i].k = "stmt" /\ Queries(tx[i].req)[1] = "ddl"

\* the last call executed a DDL statement and then failed and rolled back
RolledBackDDL ==
    /\ last.op \in {"write", "replay", "ReplayBlock"}
    /\ last.res # "ok"
    /\ RanDDL(last)
    /\ last.rb # NoRb

\* C37: if a write, replay or block entry executes a DDL statement and is
\* then rolled back because a later query of the same request fails, the
\* schema-change flag has afterwards the value it had before that request:
\* the flag is 1 only while the open transaction contains a DDL statement
\* that has not been rolled back.
C37_FlagRestoredByRollback ==
    /\ RolledBackDDL => FlagUnchanged
    /\ hasSchemaChange = 1 => TxHasDDL(unc)

\* C37 as amended: a rollback leaves the schema-change flag alone. After a
\* request that executed a DDL statement and was rolled back the flag is 1,
\* and it stays 1 until the next commit; the flag is 1 whenever the open
\* transaction contains a DDL statement that has not been rolled back.
C37_FlagKeptByRollback ==
    /\ RolledBackDDL => hasSchemaChange = 1
    /\ TxHasDDL(unc) => hasSchemaChange = 1

C37_Witness ==
    /\ RolledBackDDL
    /\ ~last.arg
    /\ hasSchemaChange = 1
    /\ ~TxHasDDL(unc)

\* the trackers the last block replay had added when its loop ended
EnqueuedByBlock ==
    { i \in DOMAIN last.poolRec : i > Len(last.pool0) }

\* C38: ReplayBlock enqueues a tracker only for a write-type entry that it
\* applied at offset = current: a block entry of Read type whose offset
\* equals current executes nothing, leaves current unchanged and adds no
\* tracker to the pool, so no two trackers are enqueued under the same key
\* during one ReplayBlock call.
C38_BlockPoolsWritesOnly ==
    last.op = "ReplayBlock" =>
        /\ \A i \in EnqueuedByBlock : QueryType(last.poolRec[i].req) = "Write"
        /\ \A i \in EnqueuedByBlock : \A j \in EnqueuedByBlock :
               i # j => last.poolRec[i].sp # last.poolRec[j].sp
        /\ \A i \in DOMAIN last.trace :
               (last.trace[i].act = "replay" /\ QueryType(last.trace[i].req) = "Read")
                   => last.trace[i].n = 0

\* Close(false) is about to commit: it holds the lock again after its
\* rollback to the commit point
CloseAboutToCommit(t) ==
    /\ thr[t].op = "Close"
    /\ ~thr[t].commit
    /\ Instr(thr[t]) = "closeCommit"
    /\ lock = t
    /\ ~closed

\* C32: Close holds the exclusive lock for its whole shutdown sequence: with
\* Close(false) running concurrently with writers, no write, replay or block
\* replay executes a statement on the write transaction between the rollback
\* to cmpoint and the commit of Close, so nothing applied after the rollback
\* is committed by Close.
C32_CloseCommitsNothingNew ==
    \A t \in Threads :
        CloseAboutToCommit(t) => \A e \in TxEffects(unc) : e.id < thr[t].off

WaitsForLock(t) == Instr(thr[t]) = "Lock"

\* C36: every Query, Replay, ReplayBlock, CommitEx and Close call releases
\* the exclusive lock on every exit path, so under fair lock scheduling every
\* operation waiting for the lock eventually acquires it and every call
\* returns; no interleaving of these operations deadlocks.
C36_CallsReturn ==
    /\ [](\A t \in Threads : thr[t].op = "-" => lock # t)
    /\ \A t \in Threads :
          /\ (thr[t].op # "-") ~> (thr[t].op = "-")
          /\ WaitsForLock(t) ~> (lock = t)

C36_Witness ==
    /\ WaitsForLock("t1")
    /\ lock = "t2"
    /\ thr["t1"].op = "Close"
    /\ thr["t2"].op = "Query"

CreateOk(t) == cre[t].pc = "done" /\ cre[t].err = Nil

CreatesReturned == \A t \in Threads : cre[t].pc \in {"-", "done"}

\* C39: for concurrent DBMS.Create calls on the same database id, at most
\* one returns success, and a Create that fails never removes the registry
\* entry stored by another Create that succeeded: after all calls returned
\* with one success and no Drop, getMeta for that id finds the database that
\* was created.
C39_CreateKeepsRegistered ==
    \A id \in DBIDs :
        /\ Cardinality({ t \in Threads : CreateOk(t) /\ cre[t].id = id }) <= 1
        /\ CreatesReturned =>
               \A t \in Threads :
                   (CreateOk(t) /\ cre[t].id = id) => dbMap[id] = t

KnownKind(c) == c.kind \in {"Block", "Transaction"}

\* C40: Chain.Check returns a non-nil error whenever Verify of the submitted
\* block or transaction fails, returns nil only when Verify succeeds, and
\* returns an ErrUnknownChainOPType error for a request of unknown type.
C40_CheckReportsVerifyFailure ==
    \A i \in DOMAIN checks :
        LET c == checks[i]
        IN  /\ (KnownKind(c) /\ c.verify # Nil) => c.err # Nil
            /\ c.err = Nil => (KnownKind(c) /\ c.verify = Nil)
            /\ ~KnownKind(c) => c.err.cause = "ErrUnknownChainOPType"
====
